---- MODULE Spec2Model ----
(***************************************************************************)
(* Model of agents/lib/gh-manifest-server.py: the GitHub App manifest flow *)
(* callback server.  One HTTPServer runs serve_forever() in the main       *)
(* thread and handles every request synchronously in Handler.do_GET; a     *)
(* successful callback starts a daemon thread that runs server.shutdown(). *)
(***************************************************************************)
EXTENDS Integers, Sequences, FiniteSets, TLC

VARIABLES
    pc,               \* position of the main thread (serve loop or handler)
    ready,            \* what selector.select() returned
    path,             \* parsed.path of the request being (or last) handled
    query,            \* the values of the "code" parameters in the query string
    code,             \* params.get("code", [None])[0]
    exch,             \* how the try block of the exchange ended
    data,             \* json.loads(resp.read())
    result,           \* the dict built from data
    status,           \* status line sent for this request (0: none)
    ctype,            \* Content-Type header sent for this request ("" none)
    body,             \* what was written to wfile for this request ("" nothing)
    hidden,           \* value attribute of the hidden input in the served form
    raised,           \* exception that left do_GET for this request ("" none)
    file,             \* OUTPUT_FILE: the JSON documents it holds
    shutdown_request, \* BaseServer.__shutdown_request
    is_shut_down,     \* BaseServer.__is_shut_down (threading.Event)
    threads,          \* the shutdown threads started, each at its position
    nreq,             \* requests accepted so far
    exchanges,        \* urlopen calls made for this request
    wrote,            \* writes of OUTPUT_FILE made for this request
    nwrites,          \* writes of OUTPUT_FILE made in all
    spawned,          \* shutdown threads started for this request
    manifest          \* MANIFEST (sys.argv[1]), a string as a sequence of characters

vars == <<pc, ready, path, query, code, exch, data, result, status, ctype,
          body, hidden, raised, file, shutdown_request, is_shut_down, threads,
          nreq, exchanges, wrote, nwrites, spawned, manifest>>

\* ---------------------------------------------------------------- bounds
MaxRequests == 3   \* requests the clients send in one run
MaxCodes == 2      \* "code" parameters in one query string
MaxTokens == 3     \* pieces a manifest string is made of

\* ---------------------------------------------------------------- values
Absent == "<absent>"    \* a key the dict does not have
None == "<None>"        \* Python's None

Paths == {"/", "/callback", "/callback/", "/other"}
CodeValues == {"", "abc"}

RECURSIVE SeqsUpTo(_, _)
SeqsUpTo(S, n) ==
    IF n = 0 THEN {<<>>}
    ELSE LET shorter == SeqsUpTo(S, n - 1)
         IN  shorter \cup {Append(s, x) : s \in shorter, x \in S}

Queries == SeqsUpTo(CodeValues, MaxCodes)

RECURSIVE Filter(_, _)
Filter(s, keep) ==
    IF s = <<>> THEN <<>>
    ELSE IF keep[Head(s)] THEN <<Head(s)>> \o Filter(Tail(s), keep)
         ELSE Filter(Tail(s), keep)

\* urllib.parse.parse_qs drops blank values (keep_blank_values=False) and
\* leaves out a key all of whose values were blank.
parse_qs(q) == Filter(q, [v \in CodeValues |-> v # ""])

\* params.get("code", [None])[0]
GetCode(params) == IF params = <<>> THEN None ELSE params[1]

\* `not code`
NotCode(c) == c = None \/ c = ""

\* ------------------------------------------------- the provider's response
RequiredKeys == {"id", "name", "client_id", "client_secret", "pem"}

\* owner: missing, a JSON value that is no object (null), an object without
\* login, an object with login
OwnerValues ==
    { [t |-> "absent", login |-> Absent],
      [t |-> "null", login |-> Absent],
      [t |-> "object", login |-> Absent],
      [t |-> "object", login |-> "octo"] }

EmptyObject == [t |-> "object", login |-> Absent]

\* responses that have the five required keys: every choice of optional keys
Complete ==
    [ id : {"1", "2"},
      slug : {Absent, "app"},
      name : {"x"},
      client_id : {"c"},
      client_secret : {"s"},
      pem : {"p"},
      webhook_secret : {Absent, "w"},
      owner : OwnerValues,
      html_url : {Absent, "u"} ]

\* d without the keys K
Without(d, K) == [k \in DOMAIN d |-> IF k \in K THEN Absent ELSE d[k]]

\* responses that lack one or more required keys (and have the optional ones)
Incomplete ==
    { Without(d, K) :
        d \in {c \in Complete : c.slug # Absent /\ c.webhook_secret # Absent
                                /\ c.html_url # Absent /\ c.owner.login # Absent},
        K \in (SUBSET RequiredKeys) \ {{}} }

\* the JSON objects the provider may answer with
Objects == Complete \cup Incomplete

NoData == [ id |-> Absent, slug |-> Absent, name |-> Absent, client_id |-> Absent,
            client_secret |-> Absent, pem |-> Absent, webhook_secret |-> Absent,
            owner |-> [t |-> "absent", login |-> Absent], html_url |-> Absent ]

\* data.get(k, "")
Get(d, k) == IF d[k] = Absent THEN "" ELSE d[k]

\* data.get("owner", {})
GetOwner(d) == IF d.owner.t = "absent" THEN EmptyObject ELSE d.owner

\* what the exchange returned: an object with the five required keys or not
Kind(d) == IF \A k \in RequiredKeys : d[k] # Absent THEN "complete" ELSE "incomplete"

\* the dict display with only id read by subscript, the rest by .get
ExtractErrorLenient(kind, d) ==
    IF kind = "nonobject" THEN "TypeError"
    ELSE IF d.id = Absent THEN "KeyError"
    ELSE IF GetOwner(d).t # "object" THEN "AttributeError"
    ELSE ""

\* the exception the dict display of lines 76-86 raises, "" when it raises none
ExtractError(kind, d) ==
    IF kind = "nonobject" THEN "TypeError"
    ELSE IF \E k \in RequiredKeys : d[k] = Absent THEN "KeyError"
    ELSE IF GetOwner(d).t # "object" THEN "AttributeError"
    ELSE ""

\* the dict display of lines 76-86
Extract(d) ==
    [ id |-> d.id,
      slug |-> Get(d, "slug"),
      name |-> d.name,
      client_id |-> d.client_id,
      client_secret |-> d.client_secret,
      pem |-> d.pem,
      webhook_secret |-> Get(d, "webhook_secret"),
      owner |-> Get(GetOwner(d), "login"),
      html_url |-> Get(d, "html_url") ]

NoResult == [ id |-> Absent, slug |-> Absent, name |-> Absent, client_id |-> Absent,
              client_secret |-> Absent, pem |-> Absent, webhook_secret |-> Absent,
              owner |-> Absent, html_url |-> Absent ]

\* ------------------------------------------------------ the manifest string
Tokens == { <<"&">>, <<"\"">>, <<"x">>, <<"a", "m", "p", ";">>,
            <<"q", "u", "o", "t", ";">> }

RECURSIVE Concats(_)
Concats(n) ==
    IF n = 0 THEN {<<>>}
    ELSE LET shorter == Concats(n - 1)
         IN  shorter \cup {s \o t : s \in shorter, t \in Tokens}

Manifests == Concats(MaxTokens)

\* str.replace(old, new) for a one-character old
RECURSIVE Replace(_, _, _)
Replace(s, old, new) ==
    IF s = <<>> THEN <<>>
    ELSE IF Head(s) = old THEN new \o Replace(Tail(s), old, new)
         ELSE <<Head(s)>> \o Replace(Tail(s), old, new)

Amp == <<"&", "a", "m", "p", ";">>
Quot == <<"&", "q", "u", "o", "t", ";">>

\* the two replacements in the other order
EscapeQuoteFirst(m) == Replace(Replace(m, "\"", Quot), "&", Amp)

\* MANIFEST.replace("&", "&amp;").replace('"', "&quot;")
Escape(m) == Replace(Replace(m, "&", Amp), "\"", Quot)

\* a manifest such as {"name":"x"}, shortened to its quotes and a letter
ScenarioManifest == <<"\"", "x", "\"">>

\* ------------------------------------------------------------ initial state
\* HTTPServer(("127.0.0.1", PORT), Handler) is built, the two lines are
\* printed, and serve_forever() is about to test its loop condition.
InitServer ==
    /\ pc = "loop"
    /\ ready = FALSE
    /\ path = ""
    /\ query = <<>>
    /\ code = None
    /\ exch = "none"
    /\ data = NoData
    /\ result = NoResult
    /\ status = 0
    /\ ctype = ""
    /\ body = ""
    /\ hidden = <<>>
    /\ raised = ""
    /\ file = <<>>
    /\ shutdown_request = FALSE
    /\ is_shut_down = FALSE
    /\ threads = <<>>
    /\ nreq = 0
    /\ exchanges = 0
    /\ wrote = 0
    /\ nwrites = 0
    /\ spawned = 0

Init == InitServer /\ manifest = ScenarioManifest

\* what the handler leaves alone: the server object and the threads
ServerUnchanged == UNCHANGED <<ready, shutdown_request, is_shut_down, manifest, nreq>>

\* ------------------------------------------------- serve_forever (main thread)
\* while not self.__shutdown_request
LoopCheck ==
    /\ pc = "loop"
    /\ pc' = IF shutdown_request THEN "finally" ELSE "select"
    /\ UNCHANGED <<ready, path, query, code, exch, data, result, status, ctype,
                   body, hidden, raised, file, shutdown_request, is_shut_down,
                   threads, nreq, exchanges, wrote, nwrites, spawned, manifest>>

\* ready = selector.select(poll_interval): a connection is pending, or the
\* poll interval ran out
Select ==
    /\ pc = "select"
    /\ \E r \in BOOLEAN :
          /\ r => nreq < MaxRequests
          /\ ready' = r
    /\ pc' = "selected"
    /\ UNCHANGED <<path, query, code, exch, data, result, status, ctype, body,
                   hidden, raised, file, shutdown_request, is_shut_down,
                   threads, nreq, exchanges, wrote, nwrites, spawned, manifest>>

\* if self.__shutdown_request: break
SelectBreak ==
    /\ pc = "selected"
    /\ shutdown_request
    /\ pc' = "finally"
    /\ UNCHANGED <<ready, path, query, code, exch, data, result, status, ctype,
                   body, hidden, raised, file, shutdown_request, is_shut_down,
                   threads, nreq, exchanges, wrote, nwrites, spawned, manifest>>

\* nothing ready: service_actions(), and back to the loop condition
Idle ==
    /\ pc = "selected"
    /\ ~shutdown_request
    /\ ~ready
    /\ pc' = "loop"
    /\ UNCHANGED <<ready, path, query, code, exch, data, result, status, ctype,
                   body, hidden, raised, file, shutdown_request, is_shut_down,
                   threads, nreq, exchanges, wrote, nwrites, spawned, manifest>>

\* if ready: self._handle_request_noblock(): the connection is accepted and
\* do_GET is entered with the request's path p and query q
AcceptRequest(p, q) ==
    /\ pc = "selected"
    /\ ~shutdown_request
    /\ ready
    /\ pc' = "dispatch"
    /\ nreq' = nreq + 1
    /\ path' = p
    /\ query' = q
    /\ code' = None
    /\ exch' = "none"
    /\ data' = NoData
    /\ result' = NoResult
    /\ status' = 0
    /\ ctype' = ""
    /\ body' = ""
    /\ raised' = ""
    /\ exchanges' = 0
    /\ wrote' = 0
    /\ spawned' = 0
    /\ UNCHANGED <<ready, hidden, file, shutdown_request, is_shut_down,
                   threads, nwrites, manifest>>

Accept == \E p \in Paths, q \in Queries : AcceptRequest(p, q)

\* finally: self.__shutdown_request = False; self.__is_shut_down.set()
Finally ==
    /\ pc = "finally"
    /\ shutdown_request' = FALSE
    /\ is_shut_down' = TRUE
    /\ pc' = "returned"
    /\ UNCHANGED <<ready, path, query, code, exch, data, result, status, ctype,
                   body, hidden, raised, file, threads, nreq, exchanges, wrote,
                   nwrites, spawned, manifest>>

\* serve_forever() returned: the main thread ends and the interpreter exits,
\* abandoning the daemon threads
ProcessExit ==
    /\ pc = "returned"
    /\ pc' = "terminated"
    /\ UNCHANGED <<ready, path, query, code, exch, data, result, status, ctype,
                   body, hidden, raised, file, shutdown_request, is_shut_down,
                   threads, nreq, exchanges, wrote, nwrites, spawned, manifest>>

\* ------------------------------------------------------------ Handler.do_GET
\* do_GET returns to serve_forever: its locals (params, code, data, result)
\* are gone
Return ==
    /\ pc' = "loop"
    /\ query' = <<>>
    /\ code' = None
    /\ data' = NoData
    /\ result' = NoResult

\* if parsed.path == "/"
ServeForm ==
    /\ pc = "dispatch"
    /\ path = "/"
    /\ hidden' = Escape(manifest)
    /\ status' = 200
    /\ ctype' = "text/html"
    /\ body' = "form"
    /\ Return
    /\ ServerUnchanged
    /\ UNCHANGED <<path, exch, raised, file, threads, exchanges, wrote,
                   nwrites, spawned>>

\* the 400 branch without its return: the handler goes on to the exchange
CallbackNoCodeNoReturn ==
    /\ pc = "dispatch"
    /\ path = "/callback"
    /\ NotCode(GetCode(parse_qs(query)))
    /\ status' = 400
    /\ body' = "No code received"
    /\ code' = GetCode(parse_qs(query))
    /\ query' = <<>>
    /\ pc' = "exchange"
    /\ ServerUnchanged
    /\ UNCHANGED <<ctype, path, exch, data, result, hidden, raised, file,
                   threads, exchanges, wrote, nwrites, spawned>>

\* elif parsed.path == "/callback": if not code
CallbackNoCode ==
    /\ pc = "dispatch"
    /\ path = "/callback"
    /\ NotCode(GetCode(parse_qs(query)))
    /\ status' = 400
    /\ body' = "No code received"
    /\ UNCHANGED ctype
    /\ Return
    /\ ServerUnchanged
    /\ UNCHANGED <<path, exch, hidden, raised, file, threads, exchanges, wrote,
                   nwrites, spawned>>

\* elif parsed.path == "/callback": a code was given (params is not read again)
CallbackCode ==
    /\ pc = "dispatch"
    /\ path = "/callback"
    /\ ~NotCode(GetCode(parse_qs(query)))
    /\ code' = GetCode(parse_qs(query))
    /\ query' = <<>>
    /\ pc' = "exchange"
    /\ ServerUnchanged
    /\ UNCHANGED <<path, exch, data, result, status, ctype, body, hidden,
                   raised, file, threads, exchanges, wrote, nwrites, spawned>>

\* the else branch serving the form instead of a 404
NotFoundServesForm ==
    /\ pc = "dispatch"
    /\ path \notin {"/", "/callback"}
    /\ hidden' = Escape(manifest)
    /\ status' = 200
    /\ ctype' = "text/html"
    /\ body' = "form"
    /\ Return
    /\ ServerUnchanged
    /\ UNCHANGED <<path, exch, raised, file, threads, exchanges, wrote,
                   nwrites, spawned>>

\* else: 404
NotFound ==
    /\ pc = "dispatch"
    /\ path \notin {"/", "/callback"}
    /\ status' = 404
    /\ UNCHANGED <<ctype, body>>
    /\ Return
    /\ ServerUnchanged
    /\ UNCHANGED <<path, exch, hidden, raised, file, threads, exchanges, wrote,
                   nwrites, spawned>>

\* what urlopen and json.loads raise
ExchangeErrors == {"URLError", "HTTPError", "JSONDecodeError"}

\* the except branch trying the exchange a second time before the 500
ExchangeFailRetry ==
    /\ pc = "exchange"
    /\ exchanges' = exchanges + 1
    /\ exch' \in ExchangeErrors
    /\ IF exchanges = 0
       THEN /\ pc' = "exchange"
            /\ UNCHANGED <<status, body, query, code, data, result>>
       ELSE /\ status' = 500
            /\ body' = "Error exchanging code"
            /\ Return
    /\ ServerUnchanged
    /\ UNCHANGED <<ctype, path, hidden, raised, file, threads, wrote, nwrites,
                   spawned>>

\* the except branch shutting the server down as the success path does
ExchangeFailShutdown ==
    /\ pc = "exchange"
    /\ exchanges' = exchanges + 1
    /\ exch' \in ExchangeErrors
    /\ status' = 500
    /\ body' = "Error exchanging code"
    /\ threads' = Append(threads, "start")
    /\ Return
    /\ ServerUnchanged
    /\ UNCHANGED <<ctype, path, hidden, raised, file, wrote, nwrites, spawned>>

\* try: urlopen(req); json.loads(resp.read())  except Exception: 500, return
ExchangeFail ==
    /\ pc = "exchange"
    /\ exchanges' = exchanges + 1
    /\ exch' \in ExchangeErrors
    /\ status' = 500
    /\ body' = "Error exchanging code"
    /\ UNCHANGED ctype
    /\ Return
    /\ ServerUnchanged
    /\ UNCHANGED <<path, hidden, raised, file, threads, wrote, nwrites,
                   spawned>>

\* try: urlopen(req); json.loads(resp.read())  with no exception: the body
\* parsed as a JSON object, or as a JSON value that is no object
ExchangeOk ==
    /\ pc = "exchange"
    /\ exchanges' = exchanges + 1
    /\ \/ data' \in Objects /\ exch' = Kind(data')
       \/ data' = NoData /\ exch' = "nonobject"
    /\ pc' = "extract"
    /\ ServerUnchanged
    /\ UNCHANGED <<path, query, code, result, status, ctype, body, hidden,
                   raised, file, threads, wrote, nwrites, spawned>>

\* result = {...} raises: the exception leaves do_GET, socketserver's
\* handle_error reports it, the connection is closed and the loop goes on
ExtractRaise ==
    /\ pc = "extract"
    /\ ExtractError(exch, data) # ""
    /\ raised' = ExtractError(exch, data)
    /\ Return
    /\ ServerUnchanged
    /\ UNCHANGED <<path, exch, status, ctype, body, hidden, file, threads,
                   exchanges, wrote, nwrites, spawned>>

\* result = {...}
ExtractOk ==
    /\ pc = "extract"
    /\ ExtractError(exch, data) = ""
    /\ result' = Extract(data)
    /\ pc' = "write"
    /\ ServerUnchanged
    /\ UNCHANGED <<path, query, code, exch, data, status, ctype, body, hidden,
                   raised, file, threads, exchanges, wrote, nwrites, spawned>>

\* the success path without the write of OUTPUT_FILE before the response
WriteFileSkipped ==
    /\ pc = "write"
    /\ pc' = "respond"
    /\ ServerUnchanged
    /\ UNCHANGED <<path, query, code, exch, data, result, status, ctype, body,
                   hidden, raised, file, threads, exchanges, wrote, nwrites,
                   spawned>>

\* with open(OUTPUT_FILE, "w") as f: json.dump(result, f, indent=2)
WriteFile ==
    /\ pc = "write"
    /\ file' = <<result>>
    /\ wrote' = wrote + 1
    /\ nwrites' = nwrites + 1
    /\ pc' = "respond"
    /\ ServerUnchanged
    /\ UNCHANGED <<path, query, code, exch, data, result, status, ctype, body,
                   hidden, raised, threads, exchanges, spawned>>

\* send_response(200) ... self.wfile.write(confirmation page)
Respond200 ==
    /\ pc = "respond"
    /\ status' = 200
    /\ ctype' = "text/html"
    /\ body' = "confirmation"
    /\ pc' = "spawn"
    /\ ServerUnchanged
    /\ UNCHANGED <<path, query, code, exch, data, result, hidden, raised, file,
                   threads, exchanges, wrote, nwrites, spawned>>

\* self.server.shutdown() called in the handler itself: it sets the flag and
\* waits for serve_forever, which is waiting for the handler
ShutdownInHandler ==
    /\ pc = "spawn"
    /\ shutdown_request' = TRUE
    /\ pc' = "shutdown_wait"
    /\ UNCHANGED <<ready, path, query, code, exch, data, result, status, ctype,
                   body, hidden, raised, file, is_shut_down, threads, nreq,
                   exchanges, wrote, nwrites, spawned, manifest>>

\* threading.Thread(target=self.server.shutdown, daemon=True).start(), and
\* do_GET returns
StartShutdownThread ==
    /\ pc = "spawn"
    /\ threads' = Append(threads, "start")
    /\ spawned' = spawned + 1
    /\ Return
    /\ ServerUnchanged
    /\ UNCHANGED <<path, exch, status, ctype, body, hidden, raised, file,
                   exchanges, wrote, nwrites>>

\* ------------------------------------------- server.shutdown (daemon thread)
\* self.__shutdown_request = True
ShutdownSetFlag(i) ==
    /\ pc # "terminated"
    /\ i \in DOMAIN threads
    /\ threads[i] = "start"
    /\ shutdown_request' = TRUE
    /\ threads' = [threads EXCEPT ![i] = "wait"]
    /\ UNCHANGED <<pc, ready, path, query, code, exch, data, result, status,
                   ctype, body, hidden, raised, file, is_shut_down, nreq,
                   exchanges, wrote, nwrites, spawned, manifest>>

\* self.__is_shut_down.wait()
ShutdownWait(i) ==
    /\ pc # "terminated"
    /\ i \in DOMAIN threads
    /\ threads[i] = "wait"
    /\ is_shut_down
    /\ threads' = [threads EXCEPT ![i] = "done"]
    /\ UNCHANGED <<pc, ready, path, query, code, exch, data, result, status,
                   ctype, body, hidden, raised, file, shutdown_request,
                   is_shut_down, nreq, exchanges, wrote, nwrites, spawned,
                   manifest>>

ShutdownThread(i) == ShutdownSetFlag(i) \/ ShutdownWait(i)

\* ------------------------------------------------------------ specifications
HandlerStep ==
    \/ ServeForm
    \/ CallbackNoCode
    \/ CallbackCode
    \/ NotFound
    \/ ExchangeFail
    \/ ExchangeOk
    \/ ExtractRaise
    \/ ExtractOk
    \/ WriteFile
    \/ Respond200
    \/ StartShutdownThread

MainThread ==
    \/ LoopCheck
    \/ Select
    \/ SelectBreak
    \/ Idle
    \/ Accept
    \/ HandlerStep
    \/ Finally
    \/ ProcessExit

Next == MainThread \/ \E i \in 1..MaxRequests : ShutdownThread(i)

Spec == Init /\ [][Next]_vars

\* the scheduler runs every thread that can run
FairSpec ==
    /\ Spec
    /\ WF_vars(MainThread)
    /\ \A i \in 1..MaxRequests : WF_vars(ShutdownThread(i))

\* the form served for every manifest string
EscInit == InitServer /\ manifest \in Manifests

EscNext == LoopCheck \/ Select \/ Idle \/ AcceptRequest("/", <<>>) \/ ServeForm

EscSpec == EscInit /\ [][EscNext]_vars

\* ------------------------------------------------------------------ claims
Handling == pc \in {"dispatch", "exchange", "extract", "write", "respond", "spawn"}
Listening == pc \in {"loop", "select", "selected"}

Fields == {"id", "slug", "name", "client_id", "client_secret", "pem",
           "webhook_secret", "owner", "html_url"}

\* a step of the main thread that leaves the output file, the shutdown flag
\* and the shutdown threads as they are and returns to the serve loop
QuietReturn ==
    /\ file' = file
    /\ nwrites' = nwrites
    /\ threads' = threads
    /\ shutdown_request' = shutdown_request
    /\ is_shut_down' = is_shut_down
    /\ pc' = "loop"

\* the states of C1
C1_Inv ==
    status = 400 =>
        /\ path = "/callback"
        /\ body = "No code received"
        /\ exchanges = 0 /\ wrote = 0 /\ spawned = 0 /\ raised = ""
        /\ ~Handling
        /\ threads = <<>> => Listening /\ ~shutdown_request

\* the steps of C1
C1_Step ==
    (/\ pc = "dispatch" /\ path = "/callback"
     /\ NotCode(GetCode(parse_qs(query))) /\ pc' # pc)
        => status' = 400 /\ exchanges' = 0 /\ QuietReturn

\* C1: a GET /callback without a (non-empty) code, in whatever state and after
\* whatever requests: the status is 400, no exchange call is made, the output
\* file is neither written nor changed, no shutdown is triggered, and the
\* handler returns to the serve loop, which goes on listening (it stops only
\* if an earlier request had triggered the shutdown).
C1_NoCode400 == []C1_Inv /\ [][C1_Step]_vars

C1_Witness == status = 400 /\ nreq = 2 /\ pc = "select" /\ hidden # <<>>

\* the states of C2
C2_Inv ==
    /\ exch \in ExchangeErrors <=> status = 500
    /\ status = 500 =>
        /\ path = "/callback"
        /\ body = "Error exchanging code"
        /\ exchanges = 1 /\ wrote = 0 /\ spawned = 0 /\ raised = ""
        /\ ~Handling
        /\ threads = <<>> => Listening /\ ~shutdown_request
        /\ (pc = "selected" /\ ready /\ ~shutdown_request) => ENABLED Accept

\* the steps of C2
C2_Step ==
    (pc = "exchange" /\ exch' \in ExchangeErrors)
        => status' = 500 /\ exchanges' = 1 /\ QuietReturn

\* C2: a GET /callback with a code whose exchange call fails (network error,
\* HTTP error, unparsable body): the status is 500, the output file is neither
\* written nor changed, exactly one exchange call was made for the request,
\* no shutdown is triggered, and the serve loop can accept the next request.
C2_ExchangeFail500 == []C2_Inv /\ [][C2_Step]_vars

C2_Witness == status = 500 /\ pc = "selected" /\ ready /\ nreq = 1

\* C3: a callback with a valid code whose exchange returns an object that has
\* id, name, client_id, client_secret and pem writes exactly one output file,
\* a record with exactly the nine fields, the required ones equal to the
\* provider's values and each optional one "" when the provider omits it.
C3_OneFileNineFields ==
    /\ (exch = "complete" /\ ~Handling) =>
        /\ raised = "" /\ wrote = 1 /\ status = 200
        /\ Len(file) = 1 /\ DOMAIN file[1] = Fields
    /\ (exch = "complete" /\ pc \in {"respond", "spawn"}) =>
        /\ wrote = 1 /\ Len(file) = 1 /\ DOMAIN file[1] = Fields
        /\ \A k \in RequiredKeys : file[1][k] = data[k]
        /\ \A k \in {"slug", "webhook_secret", "html_url"} :
              file[1][k] = IF data[k] = Absent THEN "" ELSE data[k]
        /\ file[1].owner = IF data.owner.login = Absent THEN ""
                           ELSE data.owner.login

\* C4: after a successful callback (file written, 200 sent) the process
\* reaches Terminated, when the main thread and the shutdown threads are
\* scheduled fairly; the handler that started the shutdown is not blocked by it.
C4_Terminates == (status = 200 /\ path = "/callback") ~> (pc = "terminated")

C4_Witness == pc = "terminated" /\ nwrites = 1 /\ status = 200 /\ path = "/callback"

\* C5: under every interleaving of the serve loop with the shutdown thread at
\* most one callback is processed successfully: at most one file write and at
\* most one shutdown trigger in a run.
C5_AtMostOneSuccess == nwrites <= 1 /\ Len(threads) <= 1

\* the states of C6
C6_Inv ==
    /\ pc \in {"finally", "returned", "terminated"} => nwrites > 0 /\ threads # <<>>
    /\ (status \in {400, 404, 500} \/ (status = 200 /\ path = "/")) =>
        /\ ~Handling
        /\ threads = <<>> => Listening
    /\ pc # "terminated" => ENABLED MainThread
    /\ pc = "terminated" => ~ENABLED Next

\* the steps of C6
C6_Step ==
    /\ (status' # status /\ status' \in {400, 404, 500}) => pc' = "loop"
    /\ (status' # status /\ status' = 200 /\ path = "/") => pc' = "loop"
    /\ (pc' = "terminated" /\ pc # "terminated") => pc = "returned" /\ threads # <<>>

\* C6: Terminated is reached only through a callback whose exchange succeeded;
\* every 400, 500, 404 and root-path outcome returns the server to Listening;
\* Terminated is the only state without an outgoing transition, Listening and
\* Exchanging are never stuck.
C6_Lifecycle == []C6_Inv /\ [][C6_Step]_vars

C6_Witness ==
    /\ pc = "terminated" /\ nreq = 2 /\ hidden # <<>>
    /\ status = 200 /\ path = "/callback"

\* the states of C7
C7_Inv ==
    /\ (path = "/" /\ pc # "dispatch") =>
        /\ status = 200 /\ ctype = "text/html" /\ body = "form"
        /\ exchanges = 0 /\ wrote = 0 /\ spawned = 0 /\ raised = ""
    /\ (path \notin {"", "/", "/callback"} /\ pc # "dispatch") =>
        /\ status = 404 /\ body = ""
        /\ exchanges = 0 /\ wrote = 0 /\ spawned = 0 /\ raised = ""

\* the steps of C7
C7_Step ==
    (pc = "dispatch" /\ path # "/callback" /\ pc' # pc)
        => exchanges' = 0 /\ QuietReturn

\* C7: a GET of "/" responds 200 text/html and a GET of a path other than "/"
\* and "/callback" responds 404 with an empty body; neither makes an exchange
\* call, writes or changes the output file or triggers shutdown, however many
\* of them come and in whatever order.
C7_RootAndUnknown == []C7_Inv /\ [][C7_Step]_vars

C7_Witness == status = 404 /\ nreq = 2 /\ hidden # <<>> /\ pc = "select"

\* the escaping done in one pass, character by character
RECURSIVE EscapeOnePass(_)
EscapeOnePass(m) ==
    IF m = <<>> THEN <<>>
    ELSE (IF Head(m) = "&" THEN Amp
          ELSE IF Head(m) = "\"" THEN Quot
          ELSE <<Head(m)>>) \o EscapeOnePass(Tail(m))

StartsWith(s, p) == Len(s) >= Len(p) /\ SubSeq(s, 1, Len(p)) = p

\* HTML decoding of the two entities, left to right
RECURSIVE Unescape(_)
Unescape(s) ==
    IF s = <<>> THEN <<>>
    ELSE IF StartsWith(s, Amp) THEN <<"&">> \o Unescape(SubSeq(s, 6, Len(s)))
    ELSE IF StartsWith(s, Quot) THEN <<"\"">> \o Unescape(SubSeq(s, 7, Len(s)))
    ELSE <<Head(s)>> \o Unescape(Tail(s))

\* C8: the hidden field value served on "/" is the manifest with every & made
\* &amp; and every " made &quot;: it has no raw ", every & in it starts one
\* of the two entities, and decoding the entities gives the manifest back.
C8_Escaped ==
    (path = "/" /\ status = 200) =>
        /\ hidden = EscapeOnePass(manifest)
        /\ \A i \in 1..Len(hidden) : hidden[i] # "\""
        /\ \A i \in 1..Len(hidden) :
              hidden[i] = "&" =>
                  \/ StartsWith(SubSeq(hidden, i, Len(hidden)), Amp)
                  \/ StartsWith(SubSeq(hidden, i, Len(hidden)), Quot)
        /\ Unescape(hidden) = manifest

C8_Witness ==
    /\ path = "/" /\ status = 200
    /\ manifest = <<"&", "a", "m", "p", ";", "\"">>
    /\ hidden = <<"&", "a", "m", "p", ";", "a", "m", "p", ";",
                  "&", "q", "u", "o", "t", ";">>

\* the states of C9
C9_Inv ==
    /\ exch = "incomplete" =>
        /\ pc \in {"extract"} \/ ~Handling
        /\ status = 0 /\ body = "" /\ wrote = 0 /\ spawned = 0
        /\ ~Handling => raised = "KeyError"
    /\ raised = "KeyError" => exch = "incomplete"

\* the steps of C9
C9_Step ==
    (pc = "extract" /\ exch = "incomplete" /\ pc' # pc)
        => raised' = "KeyError" /\ status' = 0 /\ QuietReturn

\* C9: when the exchange succeeds but the response lacks a required field the
\* handler ends in an uncaught failure: the output file is neither written
\* nor changed, neither 200 nor 500 (no status at all) is sent, and no
\* shutdown is triggered.
C9_MissingFieldRaises == []C9_Inv /\ [][C9_Step]_vars

C9_Witness == raised = "KeyError" /\ exch = "incomplete" /\ pc = "select"

\* the states of C10
C10_Inv ==
    /\ wrote > 0 => exchanges = 1 /\ exch = "complete"
    /\ (status = 200 /\ path = "/callback") =>
        /\ wrote = 1 /\ Len(file) = 1
        /\ \A k \in Fields : file[1][k] # Absent
        /\ Handling => file = <<result>>
    /\ spawned > 0 => status = 200 /\ body = "confirmation" /\ ~Handling
    /\ pc = "spawn" => spawned = 0 /\ ENABLED StartShutdownThread

\* the steps of C10
C10_Step ==
    /\ file' # file => pc = "write" /\ status = 0
    /\ (status' = 200 /\ status = 0 /\ path = "/callback") => pc = "respond" /\ threads' = threads
    /\ threads' # threads /\ Len(threads') > Len(threads) => pc = "spawn" /\ pc' = "loop"

\* C10: on the success path the exchange completes, then the file is written
\* and closed, then the 200 response is written, then the shutdown thread is
\* started: a sent 200 callback response finds the complete record in the
\* file, a triggered shutdown finds the response written, and the handler
\* returns without waiting for the shutdown.
C10_Order == []C10_Inv /\ [][C10_Step]_vars

C10_Witness ==
    /\ spawned = 1 /\ pc = "loop" /\ status = 200 /\ wrote = 1
    /\ threads[Len(threads)] = "start"

====
